---- MODULE Spec2Model ----
(***************************************************************************)
(* Model of the constant-product pool simulator of liquidity-sim.py:       *)
(* class DEXSimulator (constructor, get_price, calculate_slippage,         *)
(* simulate_buy, simulate_sell), calculate_x_factor, and the run of main;  *)
(* and of the history file of hearts-law-sim.py, the paging loops of       *)
(* get-token-holders.py and get-contract-txs.py, and the per-wallet cache  *)
(* of get-common-holding.py.                                               *)
(*                                                                         *)
(* Numbers.  The program computes with Python floats.  The model computes  *)
(* with the exact values of those expressions: a number is the rational    *)
(* num/den * 10^exp * 2^two kept in a canonical form, so that two numbers  *)
(* are equal exactly when their records are equal.  Rounding of binary64   *)
(* is not modelled; division by zero raises ZeroDivisionError as in        *)
(* Python.                                                                 *)
(***************************************************************************)
EXTENDS Integers, Sequences, FiniteSets, TLC

VARIABLES
    total_liquidity,  \* main's total_liquidity, the first constructor argument
    token_price,      \* main's token_price, the second constructor argument
    sim,              \* the DEXSimulator object
    call,             \* the operation invoked last, with its arguments
    result,           \* what that operation handed back
    ntrades,          \* the number of simulate_buy / simulate_sell calls so far
    pc,               \* main's position
    pairs,            \* the pairs the market-data request answers with
    token_symbol,     \* main's token_symbol
    entered,          \* the text typed at the prompt, a sequence of characters
    amount,           \* main's amount
    out,              \* the messages printed so far
    file,             \* the results file <token_symbol>-liquidity-sim.txt
    hearts_law,       \* hearts_law_sim: its locals and <token>-hearts-law.txt
    token_holders,    \* fetch_token_holders: its locals and what it has done
    contract_txs,     \* fetch_all_txs: its locals
    common_holdings   \* analyze_common_holdings: its locals and temp/

\* What only main reads and writes.
mainvars == <<pc, pairs, token_symbol, entered, amount, out, file>>

\* What the pool simulator reads and writes.
simvars == <<total_liquidity, token_price, sim, call, result, ntrades, mainvars>>

\* What the other scripts read and write.
scripts == <<hearts_law, token_holders, contract_txs, common_holdings>>

vars == <<simvars, scripts>>

\* The number of trade operations applied to one pool in a behaviour.
MaxTrades == 3

\* A pool is traded on while the numerators and denominators of its reserves
\* are at most MaxMantissa: the products of the exact arithmetic of one more
\* trade then stay within TLC's integers.
MaxMantissa == 20

(***************************************************************************)
(* Exact arithmetic for the float expressions of the program.  A number is *)
(* num/den * 10^exp * 2^two with num and den coprime to each other and to  *)
(* 10, and den > 0; zero is 0/1 * 10^0 * 2^0.  The form is unique, so      *)
(* equality of numbers is equality of records.                             *)
(***************************************************************************)
AbsInt(i) == IF i < 0 THEN -i ELSE i

SignInt(i) == IF i < 0 THEN -1 ELSE IF i = 0 THEN 0 ELSE 1

MinInt(i, j) == IF i < j THEN i ELSE j

RECURSIVE GCD(_, _)
GCD(a, b) == IF b = 0 THEN a ELSE GCD(b, a % b)

RECURSIVE Pow(_, _)
Pow(b, k) == IF k = 0 THEN 1 ELSE b * Pow(b, k - 1)

\* Moves the factors 2 and 5 of numerator and denominator into the exponents.
RECURSIVE Strip(_, _, _, _)
Strip(n, d, e, t) ==
    IF n % 2 = 0 THEN Strip(n \div 2, d, e, t + 1)
    ELSE IF n % 5 = 0 THEN Strip(n \div 5, d, e + 1, t - 1)
    ELSE IF d % 2 = 0 THEN Strip(n, d \div 2, e, t - 1)
    ELSE IF d % 5 = 0 THEN Strip(n, d \div 5, e - 1, t + 1)
    ELSE [num |-> n, den |-> d, exp |-> e, two |-> t]

\* The canonical record of n/d * 10^e * 2^t, for d > 0.
Norm(n, d, e, t) ==
    IF n = 0 THEN [num |-> 0, den |-> 1, exp |-> 0, two |-> 0]
    ELSE LET g == GCD(AbsInt(n), d)
         IN  Strip(n \div g, d \div g, e, t)

\* A decimal literal n * 10^e, and an integer literal.
Dec(n, e) == Norm(n, 1, e, 0)

Num(i) == Norm(i, 1, 0, 0)

Zero == Num(0)

One == Num(1)

Hundred == Num(100)

IsZero(x) == x.num = 0

FNeg(x) == [x EXCEPT !.num = -x.num]

FAbs(x) == [x EXCEPT !.num = AbsInt(x.num)]

FAdd(x, y) ==
    IF IsZero(x) THEN y
    ELSE IF IsZero(y) THEN x
    ELSE
    LET m2 == MinInt(x.exp + x.two, y.exp + y.two)
        m5 == MinInt(x.exp, y.exp)
        xn == x.num * Pow(2, x.exp + x.two - m2) * Pow(5, x.exp - m5)
        yn == y.num * Pow(2, y.exp + y.two - m2) * Pow(5, y.exp - m5)
        g  == GCD(x.den, y.den)
    IN  Norm(xn * (y.den \div g) + yn * (x.den \div g), (x.den \div g) * y.den,
             m5, m2 - m5)

FSub(x, y) == FAdd(x, FNeg(y))

FMul(x, y) ==
    IF IsZero(x) \/ IsZero(y) THEN Zero
    ELSE
    LET g1 == GCD(AbsInt(x.num), y.den)
        g2 == GCD(AbsInt(y.num), x.den)
    IN  Norm((x.num \div g1) * (y.num \div g2), (x.den \div g2) * (y.den \div g1),
             x.exp + y.exp, x.two + y.two)

\* x / y for y # 0; the callers raise ZeroDivisionError when y = 0.
FDiv(x, y) ==
    FMul(x, [num |-> SignInt(y.num) * y.den, den |-> AbsInt(y.num),
             exp |-> -y.exp, two |-> -y.two])

FSign(x) == SignInt(x.num)

FLt(x, y) == FSign(FSub(x, y)) < 0

FLe(x, y) == FSign(FSub(x, y)) <= 0

FGt(x, y) == FLt(y, x)

FGe(x, y) == FLe(y, x)

(***************************************************************************)
(* The inputs.  Amounts are what a caller hands to a trade operation;      *)
(* PositiveAmounts are the amounts of a valid trade.                       *)
(***************************************************************************)
Liquidities == {Num(100000), Num(40000), Num(200000)}

Prices == {Dec(1, -2), Dec(5, -1), Num(2)}

Symbols == {"HEX"}

PositiveAmounts == {Num(10000), Num(20000), Num(50000)}

Amounts == PositiveAmounts \cup {Zero, Num(-10000), Num(-20000), Num(-50000)}

\* Price-change ratios handed to calculate_x_factor.
Ratios == {Num(2), Dec(5, -1), One, Dec(144, -2), Dec(25, -2), Num(4)}

(***************************************************************************)
(* What a call hands back: a value, or the exception it raised.            *)
(***************************************************************************)
None == [kind |-> "None"]

Returned(v) == [kind |-> "value", value |-> v]

Raised(exc) == [kind |-> "raise", exc |-> exc]

Call(op, args) == [op |-> op, args |-> args]

\* The results file: absent, or present with its content.
NoFile == [exists |-> FALSE, content |-> <<>>]

FileWith(content) == [exists |-> TRUE, content |-> content]

(***************************************************************************)
(* class DEXSimulator                                                      *)
(***************************************************************************)
\* Mutant of DEXSimulator: the liquidity is not split between the two sides.
DEXSimulatorUnsplit(total_liquidity_usd, price, symbol) ==
    LET reserve_usd   == total_liquidity_usd
        reserve_token == FDiv(reserve_usd, price)
    IN  [token_symbol  |-> symbol,
         base_symbol   |-> "USD",
         reserve_usd   |-> reserve_usd,
         reserve_token |-> reserve_token,
         k             |-> FMul(reserve_usd, reserve_token)]

\* Mutant of DEXSimulator: the token reserve is the USD reserve times the price.
DEXSimulatorTimesPrice(total_liquidity_usd, price, symbol) ==
    LET reserve_usd   == FDiv(total_liquidity_usd, Num(2))
        reserve_token == FMul(reserve_usd, price)
    IN  [token_symbol  |-> symbol,
         base_symbol   |-> "USD",
         reserve_usd   |-> reserve_usd,
         reserve_token |-> reserve_token,
         k             |-> FMul(reserve_usd, reserve_token)]

\* __init__(total_liquidity_usd, token_price, token_symbol), for a price # 0.
DEXSimulator(total_liquidity_usd, price, symbol) ==
    LET reserve_usd   == FDiv(total_liquidity_usd, Num(2))
        reserve_token == FDiv(reserve_usd, price)
    IN  [token_symbol  |-> symbol,
         base_symbol   |-> "USD",
         reserve_usd   |-> reserve_usd,
         reserve_token |-> reserve_token,
         k             |-> FMul(reserve_usd, reserve_token)]

\* get_price, for reserve_token # 0.
GetPrice(s) == FDiv(s.reserve_usd, s.reserve_token)

\* Mutant of CalculateSlippage: the two amounts are subtracted the other way.
CalculateSlippageSwapped(expected_amount, actual_amount) ==
    IF IsZero(expected_amount) THEN Zero
    ELSE FMul(FDiv(FSub(actual_amount, expected_amount), expected_amount), Hundred)

CalculateSlippage(expected_amount, actual_amount) ==
    IF IsZero(expected_amount) THEN Zero
    ELSE FMul(FDiv(FSub(expected_amount, actual_amount), expected_amount), Hundred)

\* Mutant of StoreReserves: k is recomputed, from the new USD reserve and the
\* token reserve not yet updated.
StoreReservesRefreshK(s, new_reserve_usd, new_reserve_token) ==
    [s EXCEPT !.reserve_usd = new_reserve_usd, !.reserve_token = new_reserve_token,
              !.k = FMul(new_reserve_usd, s.reserve_token)]

\* The assignments of simulate_buy and simulate_sell to the two reserves.
StoreReserves(s, new_reserve_usd, new_reserve_token) ==
    [s EXCEPT !.reserve_usd = new_reserve_usd, !.reserve_token = new_reserve_token]

\* Mutant of BuyNewReserveUsd: the amount is taken out of the USD reserve.
BuyNewReserveUsdMinus(s, usd_amount) == FSub(s.reserve_usd, usd_amount)

\* Mutant of BuyNewReserveToken: k is divided by the old USD reserve.
BuyNewReserveTokenStale(s, new_reserve_usd) == FDiv(s.k, s.reserve_usd)

\* Mutant of BuyTokensOut: the difference is taken the other way.
BuyTokensOutReversed(s, new_reserve_token) == FSub(new_reserve_token, s.reserve_token)

\* Mutant of BuyExpectedTokens: the amount is multiplied by the price.
BuyExpectedTokensTimes(usd_amount, old_price) == FMul(usd_amount, old_price)

\* Mutant of PriceChangeRatio: the old price over the new one.
PriceChangeRatioInverted(new_price, old_price) == FDiv(old_price, new_price)

\* Mutant of BuyResult: the two amounts are stored under each other's key.
BuyResultSwapped(usd_amount, tokens_out, old_price, new_price, slippage) ==
    [action             |-> "buy",
     tokens_received    |-> usd_amount,
     usd_spent          |-> tokens_out,
     old_price          |-> old_price,
     new_price          |-> new_price,
     price_change_ratio |-> FDiv(new_price, old_price),
     slippage           |-> slippage]

\* simulate_buy, line by line.
BuyNewReserveUsd(s, usd_amount) == FAdd(s.reserve_usd, usd_amount)

BuyNewReserveToken(s, new_reserve_usd) == FDiv(s.k, new_reserve_usd)

BuyTokensOut(s, new_reserve_token) == FSub(s.reserve_token, new_reserve_token)

BuyExpectedTokens(usd_amount, old_price) == FDiv(usd_amount, old_price)

PriceChangeRatio(new_price, old_price) == FDiv(new_price, old_price)

BuyResult(usd_amount, tokens_out, old_price, new_price, slippage) ==
    [action             |-> "buy",
     tokens_received    |-> tokens_out,
     usd_spent          |-> usd_amount,
     old_price          |-> old_price,
     new_price          |-> new_price,
     price_change_ratio |-> PriceChangeRatio(new_price, old_price),
     slippage           |-> slippage]

\* The pool and the outcome that simulate_buy(usd_amount) leaves, called on pool s.
SimulateBuy(s, usd_amount) ==
    IF IsZero(s.reserve_token)
    THEN [sim |-> s, result |-> Raised("ZeroDivisionError")]
    ELSE
    LET old_price       == GetPrice(s)
        new_reserve_usd == BuyNewReserveUsd(s, usd_amount)
    IN
    IF IsZero(new_reserve_usd)
    THEN [sim |-> s, result |-> Raised("ZeroDivisionError")]
    ELSE
    LET new_reserve_token == BuyNewReserveToken(s, new_reserve_usd)
        tokens_out        == BuyTokensOut(s, new_reserve_token)
    IN
    IF IsZero(old_price)
    THEN [sim |-> s, result |-> Raised("ZeroDivisionError")]
    ELSE
    LET expected_tokens == BuyExpectedTokens(usd_amount, old_price)
        slippage        == CalculateSlippage(expected_tokens, tokens_out)
        s2              == StoreReserves(s, new_reserve_usd, new_reserve_token)
    IN
    IF IsZero(s2.reserve_token)
    THEN [sim |-> s2, result |-> Raised("ZeroDivisionError")]
    ELSE [sim    |-> s2,
          result |-> Returned(BuyResult(usd_amount, tokens_out, old_price,
                                        GetPrice(s2), slippage))]

\* Mutant of SellTokensToSell: the amount is taken as a number of tokens.
SellTokensToSellRaw(usd_amount, old_price) == FAbs(usd_amount)

\* Mutant of SellNewReserveUsd: the USD reserve gives up the USD value of the
\* tokens sold, priced before the trade.
SellNewReserveUsdLinear(s, new_reserve_token) ==
    FSub(s.reserve_usd, FMul(FSub(new_reserve_token, s.reserve_token), GetPrice(s)))

\* Mutant of SellNewReserveToken: the sold tokens are taken out of the reserve.
SellNewReserveTokenMinus(s, tokens_to_sell) == FSub(s.reserve_token, tokens_to_sell)

\* Mutant of SellUsdOut: the difference is taken the other way.
SellUsdOutReversed(s, new_reserve_usd) == FSub(new_reserve_usd, s.reserve_usd)

\* simulate_sell, line by line.
SellTokensToSell(usd_amount, old_price) == FDiv(FAbs(usd_amount), old_price)

SellNewReserveToken(s, tokens_to_sell) == FAdd(s.reserve_token, tokens_to_sell)

SellNewReserveUsd(s, new_reserve_token) == FDiv(s.k, new_reserve_token)

SellUsdOut(s, new_reserve_usd) == FSub(s.reserve_usd, new_reserve_usd)

SellExpectedUsd(usd_amount) == FAbs(usd_amount)

SellResult(usd_out, tokens_to_sell, old_price, new_price, slippage) ==
    [action             |-> "sell",
     usd_received       |-> usd_out,
     tokens_spent       |-> tokens_to_sell,
     old_price          |-> old_price,
     new_price          |-> new_price,
     price_change_ratio |-> PriceChangeRatio(new_price, old_price),
     slippage           |-> slippage]

\* The pool and the outcome that simulate_sell(usd_amount) leaves, called on pool s.
SimulateSell(s, usd_amount) ==
    IF IsZero(s.reserve_token)
    THEN [sim |-> s, result |-> Raised("ZeroDivisionError")]
    ELSE
    LET old_price == GetPrice(s)
    IN
    IF IsZero(old_price)
    THEN [sim |-> s, result |-> Raised("ZeroDivisionError")]
    ELSE
    LET tokens_to_sell    == SellTokensToSell(usd_amount, old_price)
        new_reserve_token == SellNewReserveToken(s, tokens_to_sell)
    IN
    IF IsZero(new_reserve_token)
    THEN [sim |-> s, result |-> Raised("ZeroDivisionError")]
    ELSE
    LET new_reserve_usd == SellNewReserveUsd(s, new_reserve_token)
        usd_out         == SellUsdOut(s, new_reserve_usd)
        slippage        == CalculateSlippage(SellExpectedUsd(usd_amount), usd_out)
        s2              == StoreReserves(s, new_reserve_usd, new_reserve_token)
    IN  [sim    |-> s2,
         result |-> Returned(SellResult(usd_out, tokens_to_sell, old_price,
                                        GetPrice(s2), slippage))]

\* Mutant of CalculateXFactor: the comparison is strict.
CalculateXFactorStrict(price_change_ratio) ==
    IF FGt(price_change_ratio, One) THEN price_change_ratio
    ELSE FDiv(Num(-1), price_change_ratio)

\* Mutant of CalculateXFactor: the ratio is returned as it is.
CalculateXFactorIdentity(price_change_ratio) == price_change_ratio

\* calculate_x_factor, for price_change_ratio # 0.
CalculateXFactor(price_change_ratio) ==
    IF FGe(price_change_ratio, One) THEN price_change_ratio
    ELSE FDiv(Num(-1), price_change_ratio)

(***************************************************************************)
(* The state machine: a pool under construction-time inputs, and the       *)
(* operations a caller applies to it.                                      *)
(***************************************************************************)
Init ==
    \E l \in Liquidities, p \in Prices, y \in Symbols :
        /\ total_liquidity = l
        /\ token_price = p
        /\ sim = DEXSimulator(l, p, y)
        /\ call = Call("__init__", <<l, p>>)
        /\ result = None
        /\ ntrades = 0
        /\ pc = "class"
        /\ pairs = <<>>
        /\ token_symbol = y
        /\ entered = <<>>
        /\ amount = None
        /\ out = <<>>
        /\ file = NoFile
        /\ hearts_law = None
        /\ token_holders = None
        /\ contract_txs = None
        /\ common_holdings = None

\* The bounds of the exploration: see MaxTrades and MaxMantissa.
Short(x) == AbsInt(x.num) <= MaxMantissa /\ x.den <= MaxMantissa

Explored == ntrades < MaxTrades /\ Short(sim.reserve_usd) /\ Short(sim.reserve_token)

Buy(usd_amount) ==
    /\ Explored
    /\ LET r == SimulateBuy(sim, usd_amount)
       IN  /\ sim' = r.sim
           /\ result' = r.result
    /\ call' = Call("simulate_buy", <<usd_amount>>)
    /\ ntrades' = ntrades + 1
    /\ UNCHANGED <<total_liquidity, token_price, mainvars, scripts>>

Sell(usd_amount) ==
    /\ Explored
    /\ LET r == SimulateSell(sim, usd_amount)
       IN  /\ sim' = r.sim
           /\ result' = r.result
    /\ call' = Call("simulate_sell", <<usd_amount>>)
    /\ ntrades' = ntrades + 1
    /\ UNCHANGED <<total_liquidity, token_price, mainvars, scripts>>


\* Mutant of Price: get_price returns the price the pool was built with.
PriceCached ==
    /\ call' = Call("get_price", <<>>)
    /\ result' = Returned(token_price)
    /\ UNCHANGED <<total_liquidity, token_price, sim, ntrades, mainvars, scripts>>

Price ==
    /\ call' = Call("get_price", <<>>)
    /\ result' = IF IsZero(sim.reserve_token) THEN Raised("ZeroDivisionError")
                 ELSE Returned(GetPrice(sim))
    /\ UNCHANGED <<total_liquidity, token_price, sim, ntrades, mainvars, scripts>>

Slippage(expected_amount, actual_amount) ==
    /\ call' = Call("calculate_slippage", <<expected_amount, actual_amount>>)
    /\ result' = Returned(CalculateSlippage(expected_amount, actual_amount))
    /\ UNCHANGED <<total_liquidity, token_price, sim, ntrades, mainvars, scripts>>

\* calculate_x_factor applied to a ratio, as print_simulation_results applies
\* it to the price_change_ratio of a trade's result.
XFactor(price_change_ratio) ==
    /\ call' = Call("calculate_x_factor", <<price_change_ratio>>)
    /\ result' = IF IsZero(price_change_ratio) THEN Raised("ZeroDivisionError")
                 ELSE Returned(CalculateXFactor(price_change_ratio))
    /\ UNCHANGED <<total_liquidity, token_price, sim, ntrades, mainvars, scripts>>

IsTradeResult == call.op \in {"simulate_buy", "simulate_sell"} /\ result.kind = "value"

XFactorOfResult ==
    /\ IsTradeResult
    /\ XFactor(result.value.price_change_ratio)

\* Valid use: every trade amount is positive.
Next ==
    \/ \E a \in PositiveAmounts : Buy(a)
    \/ \E a \in PositiveAmounts : Sell(a)
    \/ Price
    \/ \E e \in {Zero, Num(10000), Num(20000)}, a \in {Num(10000), Num(30000)} :
           Slippage(e, a)
    \/ \E r \in Ratios : XFactor(r)
    \/ XFactorOfResult

Spec == Init /\ [][Next]_vars

\* The operations as the class offers them: any number as the trade amount.
NextUnchecked ==
    \/ \E a \in Amounts : Buy(a)
    \/ \E a \in Amounts : Sell(a)
    \/ Price

SpecUnchecked == Init /\ [][NextUnchecked]_vars

(***************************************************************************)
(* The run of main: fetch the market data, build the pool, read the trade  *)
(* amount, apply one trade, print and save.                                *)
(***************************************************************************)
\* A pair of the market-data answer: its liquidity.usd, priceUsd and
\* baseToken.symbol ("" when the answer has none).
Pair(liquidity_usd, priceUsd, symbol) ==
    [liquidity_usd |-> liquidity_usd, priceUsd |-> priceUsd, symbol |-> symbol]

FirstPairs ==
    {Pair(l, p, y) : l \in {Zero, Num(40000), Num(100000), Num(-40000)},
                     p \in {Dec(1, -2), Zero, Dec(-1, -2)},
                     y \in {"HEX", ""}}

MorePairs == {Pair(Num(60000), Num(3), "PLS"), Pair(Num(-40000), Zero, "")}

PairLists ==
    {<<>>} \cup {<<p>> : p \in FirstPairs}
           \cup {<<p, q>> : p \in FirstPairs, q \in MorePairs}

\* The texts typed at the prompt.
Inputs ==
    { <<"1", "0", "0", "0", "0">>,
      <<"-", "2", "0", "0", "0", "0">>,
      <<"+", "5", "0", "0", "0", "0">>,
      <<" ", "2", "5", "0", "0", "0", ".", "0", " ">>,
      <<"-", ".", "0">>,
      <<"0">>,
      <<"-", "0">>,
      <<"0", ".", "0">>,
      <<>>,
      <<"-">>,
      <<".">>,
      <<"a", "b", "c">>,
      <<"1", ",", "0", "0", "0">>,
      <<"1", "0", " ", "0">>,
      <<"1", ".", "2", ".", "3">> }

\* What the results file holds before the run.
Files == {NoFile, FileWith(<<"earlier results">>)}

\* calculate_total_liquidity: the sum of the liquidities that are > 0.
RECURSIVE CalculateTotalLiquidity(_)
CalculateTotalLiquidity(ps) ==
    IF ps = <<>> THEN Zero
    ELSE LET rest == CalculateTotalLiquidity(Tail(ps))
         IN  IF FGt(Head(ps).liquidity_usd, Zero)
             THEN FAdd(Head(ps).liquidity_usd, rest)
             ELSE rest

\* get_token_data: (total_liquidity, token_price, token_symbol), each None
\* when there are no pairs.
GetTokenData(ps) ==
    IF ps = <<>>
    THEN [total_liquidity |-> None, token_price |-> None, token_symbol |-> ""]
    ELSE [total_liquidity |-> CalculateTotalLiquidity(ps),
          token_price     |-> ps[1].priceUsd,
          token_symbol    |-> ps[1].symbol]

\* Python's truth value of a number or None, and of a string or None.
Truthy(x) == x # None /\ ~IsZero(x)

TruthyStr(s) == s # ""

\* `if total_liquidity and token_price and token_symbol`
DataUsable(l, p, y) == Truthy(l) /\ Truthy(p) /\ TruthyStr(y)

\* float(text): the text without surrounding blanks is an optional sign and
\* decimal digits with at most one point and at least one digit.
Digits == {"0", "1", "2", "3", "4", "5", "6", "7", "8", "9"}

DigitValue(c) ==
    CASE c = "0" -> 0 [] c = "1" -> 1 [] c = "2" -> 2 [] c = "3" -> 3
      [] c = "4" -> 4 [] c = "5" -> 5 [] c = "6" -> 6 [] c = "7" -> 7
      [] c = "8" -> 8 [] c = "9" -> 9

RECURSIVE LStrip(_)
LStrip(s) == IF s # <<>> /\ Head(s) = " " THEN LStrip(Tail(s)) ELSE s

RECURSIVE RStrip(_)
RStrip(s) ==
    IF s # <<>> /\ s[Len(s)] = " " THEN RStrip(SubSeq(s, 1, Len(s) - 1)) ELSE s

\* The value of a sequence of digits, after the digits already read as n.
RECURSIVE DigitsValue(_, _)
DigitsValue(s, n) ==
    IF s = <<>> THEN n ELSE DigitsValue(Tail(s), 10 * n + DigitValue(Head(s)))

\* The positions of the points in s.
Points(s) == {i \in 1..Len(s) : s[i] = "."}

\* Mutant of ParseFloat: characters that are neither digits nor points are
\* skipped instead of refused, and a text without digits reads as 0.
ParseFloatLenient(text) ==
    LET negative == text # <<>> /\ Head(LStrip(text)) = "-"
        kept     == SelectSeq(text, LAMBDA c : c \in Digits \cup {"."})
        point    == IF Points(kept) = {} THEN Len(kept) + 1
                    ELSE CHOOSE i \in Points(kept) : \A j \in Points(kept) : i <= j
        whole    == SubSeq(kept, 1, point - 1)
        fraction == SelectSeq(SubSeq(kept, point + 1, Len(kept)),
                              LAMBDA c : c \in Digits)
        magnitude == DigitsValue(whole \o fraction, 0)
    IN  Returned(Dec(IF negative THEN -magnitude ELSE magnitude, -Len(fraction)))

ParseFloat(text) ==
    LET stripped == RStrip(LStrip(text))
        signed   == stripped # <<>> /\ Head(stripped) \in {"+", "-"}
        negative == signed /\ Head(stripped) = "-"
        body     == IF signed THEN Tail(stripped) ELSE stripped
        point    == IF Points(body) = {} THEN Len(body) + 1
                    ELSE CHOOSE i \in Points(body) : \A j \in Points(body) : i <= j
        whole    == SubSeq(body, 1, point - 1)
        fraction == SubSeq(body, point + 1, Len(body))
        wellformed ==
            /\ Cardinality(Points(body)) <= 1
            /\ \A i \in 1..Len(whole) : whole[i] \in Digits
            /\ \A i \in 1..Len(fraction) : fraction[i] \in Digits
            /\ Len(whole) + Len(fraction) >= 1
        magnitude == DigitsValue(whole \o fraction, 0)
    IN  IF wellformed
        THEN Returned(Dec(IF negative THEN -magnitude ELSE magnitude, -Len(fraction)))
        ELSE Raised("ValueError")

\* The messages main prints.
MsgTokenInfo == "CURRENT TOKEN INFO:"

MsgZero == "Trade amount cannot be zero."

MsgResults == "SIMULATION RESULTS"

MsgSaved == "Detailed simulation results have been saved"

MsgInvalid == "Invalid input. Please enter a valid number."

MsgUnable == "Unable to fetch token data or run simulation."

MainInit ==
    \E ps \in PairLists, text \in Inputs, f \in Files :
        /\ pc = "fetch"
        /\ pairs = ps
        /\ entered = text
        /\ file = f
        /\ total_liquidity = None
        /\ token_price = None
        /\ token_symbol = ""
        /\ sim = None
        /\ call = Call("main", <<>>)
        /\ result = None
        /\ ntrades = 0
        /\ amount = None
        /\ out = <<>>
        /\ hearts_law = None
        /\ token_holders = None
        /\ contract_txs = None
        /\ common_holdings = None

\* total_liquidity, token_price, token_symbol = get_token_data(token_address)
FetchTokenData ==
    /\ pc = "fetch"
    /\ LET d == GetTokenData(pairs)
       IN  /\ total_liquidity' = d.total_liquidity
           /\ token_price' = d.token_price
           /\ token_symbol' = d.token_symbol
    /\ pc' = "check"
    /\ UNCHANGED <<scripts, sim, call, result, ntrades, pairs, entered, amount, out, file>>

\* The data is usable: print it and build the pool.
Construct ==
    /\ pc = "check"
    /\ DataUsable(total_liquidity, token_price, token_symbol)
    /\ out' = Append(out, MsgTokenInfo)
    /\ sim' = DEXSimulator(total_liquidity, token_price, token_symbol)
    /\ call' = Call("__init__", <<total_liquidity, token_price>>)
    /\ pc' = "input"
    /\ UNCHANGED <<scripts, total_liquidity, token_price, token_symbol, result, ntrades,
                   pairs, entered, amount, file>>

\* The data is not usable: the else branch of main.
RejectData ==
    /\ pc = "check"
    /\ ~DataUsable(total_liquidity, token_price, token_symbol)
    /\ out' = Append(out, MsgUnable)
    /\ pc' = "done"
    /\ UNCHANGED <<scripts, total_liquidity, token_price, token_symbol, sim, call, result,
                   ntrades, pairs, entered, amount, file>>

\* amount = float(input(...)) raises ValueError, which main catches.
ReadInvalid ==
    /\ pc = "input"
    /\ ParseFloat(entered).kind = "raise"
    /\ out' = Append(out, MsgInvalid)
    /\ pc' = "done"
    /\ UNCHANGED <<scripts, total_liquidity, token_price, token_symbol, sim, call, result,
                   ntrades, pairs, entered, amount, file>>

\* Mutant of AmountIsZero: `amount is 0`, which no float satisfies.
AmountIsZeroIdentity(a) == FALSE

\* amount == 0
AmountIsZero(a) == IsZero(a)

\* The amount is zero: main prints and leaves with sys.exit(1).
ReadZero ==
    /\ pc = "input"
    /\ ParseFloat(entered).kind = "value"
    /\ AmountIsZero(ParseFloat(entered).value)
    /\ amount' = ParseFloat(entered).value
    /\ out' = Append(out, MsgZero)
    /\ pc' = "exit 1"
    /\ UNCHANGED <<scripts, total_liquidity, token_price, token_symbol, sim, call, result,
                   ntrades, pairs, entered, file>>

ReadAmount ==
    /\ pc = "input"
    /\ ParseFloat(entered).kind = "value"
    /\ ~AmountIsZero(ParseFloat(entered).value)
    /\ amount' = ParseFloat(entered).value
    /\ pc' = "trade"
    /\ UNCHANGED <<scripts, total_liquidity, token_price, token_symbol, sim, call, result,
                   ntrades, pairs, entered, out, file>>

\* Mutant of IsBuy: the comparison is turned around.
IsBuyFlipped(a) == FLt(a, Zero)

\* is_buy = amount > 0
IsBuy(a) == FGt(a, Zero)

\* Mutant of AfterTrade: main asks for the next trade instead of going on.
AfterTradeAgain(r) == IF r.kind = "value" THEN "trade" ELSE "crash"

\* Where main goes on after a trade that returned, and after one that raised
\* ZeroDivisionError, which main does not catch.
AfterTrade(r) == IF r.kind = "value" THEN "print" ELSE "crash"

\* result = sim.simulate_buy(amount)
MainBuy ==
    /\ pc = "trade"
    /\ IsBuy(amount)
    /\ LET r == SimulateBuy(sim, amount)
       IN  /\ sim' = r.sim
           /\ result' = r.result
           /\ pc' = AfterTrade(r.result)
    /\ call' = Call("simulate_buy", <<amount>>)
    /\ ntrades' = ntrades + 1
    /\ UNCHANGED <<scripts, total_liquidity, token_price, token_symbol, pairs, entered,
                   amount, out, file>>

\* result = sim.simulate_sell(abs(amount))
MainSell ==
    /\ pc = "trade"
    /\ ~IsBuy(amount)
    /\ LET r == SimulateSell(sim, FAbs(amount))
       IN  /\ sim' = r.sim
           /\ result' = r.result
           /\ pc' = AfterTrade(r.result)
    /\ call' = Call("simulate_sell", <<FAbs(amount)>>)
    /\ ntrades' = ntrades + 1
    /\ UNCHANGED <<scripts, total_liquidity, token_price, token_symbol, pairs, entered,
                   amount, out, file>>

\* print_simulation_results, which computes the x factor of the result.
PrintResults ==
    /\ pc = "print"
    /\ IF IsZero(result.value.price_change_ratio)
       THEN pc' = "crash" /\ out' = out
       ELSE pc' = "save" /\ out' = Append(out, MsgResults)
    /\ UNCHANGED <<scripts, total_liquidity, token_price, token_symbol, sim, call, result,
                   ntrades, pairs, entered, amount, file>>

\* read_existing_content, then open(filename, 'w') with an empty body, then
\* the closing message.
SaveResults ==
    /\ pc = "save"
    /\ file' = FileWith(<<>>)
    /\ out' = Append(out, MsgSaved)
    /\ pc' = "done"
    /\ UNCHANGED <<scripts, total_liquidity, token_price, token_symbol, sim, call, result,
                   ntrades, pairs, entered, amount>>

MainNext ==
    \/ FetchTokenData
    \/ Construct
    \/ RejectData
    \/ ReadInvalid
    \/ ReadZero
    \/ ReadAmount
    \/ MainBuy
    \/ MainSell
    \/ PrintResults
    \/ SaveResults

MainSpec == MainInit /\ [][MainNext]_vars

(***************************************************************************)
(* Properties.                                                             *)
(***************************************************************************)
\* The pool that the constructor built from main's two numbers.
Constructed == DEXSimulator(total_liquidity, token_price, sim.token_symbol)

IsBuyResult == call.op = "simulate_buy" /\ result.kind = "value"

IsSellResult == call.op = "simulate_sell" /\ result.kind = "value"

\* A step that is a call of simulate_buy, and one that is a call of simulate_sell.
BuyStep == call'.op = "simulate_buy" /\ ntrades' = ntrades + 1

SellStep == call'.op = "simulate_sell" /\ ntrades' = ntrades + 1

\* C1: in every reachable state of a pool built from positive liquidity and
\* price and traded on with positive amounts, reserve_usd * reserve_token
\* equals the k computed at construction.
C1_InvariantPreserved ==
    FMul(sim.reserve_usd, sim.reserve_token) = Constructed.k

\* C1 witness: three trades ending in a sell have moved the reserves away from
\* their constructed values, and the product is still the constructed k.
C1_Witness ==
    /\ ntrades = 3
    /\ IsSellResult
    /\ sim.reserve_usd # Constructed.reserve_usd
    /\ FMul(sim.reserve_usd, sim.reserve_token) = Constructed.k

\* C2: no operation writes k or token_symbol: every step leaves both as they
\* are, so k is always the value the constructor computed.
C2_KFrozen ==
    [][/\ sim'.k = sim.k
       /\ sim'.token_symbol = sim.token_symbol
       /\ sim'.k = Constructed.k]_vars

\* C2 witness: after trades, a get_price call has returned and k is the
\* constructed value while the reserves are not.
C2_Witness ==
    /\ ntrades >= 2
    /\ call.op = "get_price"
    /\ result.kind = "value"
    /\ sim.reserve_token # Constructed.reserve_token
    /\ sim.k = Constructed.k

BuySlippage(s, a) == SimulateBuy(s, a).result.value.slippage

SellSlippage(s, a) == SimulateSell(s, a).result.value.slippage

C8_XFactorConvention ==
    (call.op = "calculate_x_factor" /\ FGt(call.args[1], Zero)) =>
        /\ result.kind = "value"
        /\ FGe(call.args[1], One) => result.value = call.args[1]
        /\ FLt(call.args[1], One) => FMul(result.value, call.args[1]) = Num(-1)
        /\ call.args[1] = Num(2) => result.value = Num(2)
        /\ call.args[1] = Dec(5, -1) => result.value = Num(-2)
        /\ call.args[1] = One => result.value = One

\* C8 witness: the factor of the ratio of a sell, which is below 1, has been
\* computed and is below -1.
C8_Witness ==
    /\ call.op = "calculate_x_factor"
    /\ ntrades >= 1
    /\ FLt(call.args[1], One)
    /\ result.kind = "value"
    /\ FLt(result.value, Num(-1))

\* The pool of the concrete scenario: liquidity 100,000 at price 0.01.
Scenario == total_liquidity = Num(100000) /\ token_price = Dec(1, -2)

ScenarioBought ==
    Scenario /\ ntrades = 1 /\ call = Call("simulate_buy", <<Num(10000)>>)

\* C9: liquidity 100,000 and price 0.01 give reserve_usd = 50,000,
\* reserve_token = 5,000,000 and k = 2.5e11; simulate_buy(10,000) then leaves
\* reserve_usd = 60,000 and reserve_token = 2.5e11/60,000 and returns
\* tokens_received = 5,000,000 - 2.5e11/60,000 (about 833,333.33),
\* new_price = 0.0144 and price_change_ratio = 1.44.
C9_ConcreteScenario ==
    /\ (Scenario /\ ntrades = 0) =>
          /\ sim.reserve_usd = Num(50000)
          /\ sim.reserve_token = Num(5000000)
          /\ sim.k = Dec(25, 10)
    /\ ScenarioBought =>
          /\ result.kind = "value"
          /\ sim.reserve_usd = Num(60000)
          /\ sim.reserve_token = FDiv(Dec(25, 10), Num(60000))
          /\ result.value.tokens_received =
                 FSub(Num(5000000), FDiv(Dec(25, 10), Num(60000)))
          /\ FLe(Dec(83333333, -2), result.value.tokens_received)
          /\ FLe(result.value.tokens_received, Dec(83333334, -2))
          /\ result.value.new_price = Dec(144, -4)
          /\ result.value.price_change_ratio = Dec(144, -2)

\* C9 witness: the scenario's buy has run.
C9_Witness == ScenarioBought /\ result.kind = "value"

\* C10: simulate_buy called with an amount <= 0 is rejected: it returns no
\* trade result and leaves both reserves as they were.
C10_BuyRejectsNonPositive ==
    [][(BuyStep /\ FLe(call'.args[1], Zero)) =>
           /\ result'.kind # "value"
           /\ sim'.reserve_usd = sim.reserve_usd
           /\ sim'.reserve_token = sim.reserve_token]_vars

Range(s) == {s[i] : i \in 1..Len(s)}

Last(s) == s[Len(s)]

\* C11: a pool is never built from a total liquidity <= 0 or a price <= 0: no
\* pool with a non-positive reserve or a non-positive k exists.
C11_ConstructionBoundary ==
    sim # None =>
        /\ FGt(total_liquidity, Zero)
        /\ FGt(token_price, Zero)
        /\ FGt(sim.reserve_usd, Zero)
        /\ FGt(sim.reserve_token, Zero)
        /\ FGt(sim.k, Zero)

\* The texts of the model that Python's float reads as zero, and those it
\* refuses with ValueError.
ZeroTexts == {<<"0">>, <<"-", "0">>, <<"0", ".", "0">>, <<"-", ".", "0">>}

NonNumericTexts ==
    { <<>>, <<"-">>, <<".">>, <<"a", "b", "c">>, <<"1", ",", "0", "0", "0">>,
      <<"1", "0", " ", "0">>, <<"1", ".", "2", ".", "3">> }

\* A step of a run whose entered amount is 0: it leaves the file alone, and
\* from the prompt it leaves the run.
ZeroAmountStep ==
    entered \in ZeroTexts =>
        /\ file' = file
        /\ (pc = "input" => pc' = "exit 1")

\* C12: when the entered amount is 0 the run reports it and stops before any
\* trade: once the amount is read the run has left with status 1, the pool
\* is as constructed, no result is printed, and no step writes the file.
C12_ZeroAmountRejected ==
    /\ [](entered \in ZeroTexts =>
            /\ pc \in {"fetch", "check", "input", "done", "exit 1"}
            /\ ntrades = 0
            /\ result = None
            /\ MsgResults \notin Range(out)
            /\ MsgSaved \notin Range(out)
            /\ sim # None =>
                  sim = DEXSimulator(total_liquidity, token_price, token_symbol)
            /\ pc = "exit 1" => sim # None /\ Last(out) = MsgZero)
    /\ [][ZeroAmountStep]_vars

\* C12 witness: the amount "-.0" was entered, the run has left with status 1,
\* and the earlier results file is as it was.
C12_Witness ==
    /\ pc = "exit 1"
    /\ entered = <<"-", ".", "0">>
    /\ sim = DEXSimulator(total_liquidity, token_price, token_symbol)
    /\ file = FileWith(<<"earlier results">>)

\* A step of a run whose entered text is no number: it leaves the file alone,
\* and from the prompt it ends the run.
NonNumericStep ==
    entered \in NonNumericTexts =>
        /\ file' = file
        /\ (pc = "input" => pc' = "done")

\* C13: when the entered text is no number the run ends with the
\* invalid-input message: no trade is invoked, the pool is as constructed, no
\* result is produced and no step touches the file.
C13_NonNumericRejected ==
    /\ [](entered \in NonNumericTexts =>
            /\ pc \in {"fetch", "check", "input", "done"}
            /\ ntrades = 0
            /\ result = None
            /\ amount = None
            /\ MsgResults \notin Range(out)
            /\ MsgSaved \notin Range(out)
            /\ sim # None =>
                  sim = DEXSimulator(total_liquidity, token_price, token_symbol)
            /\ (pc = "done" /\ sim # None) => Last(out) = MsgInvalid)
    /\ [][NonNumericStep]_vars

\* C13 witness: "1,000" was entered on a constructed pool, the run is over with
\* the invalid-input message, and the earlier results file is as it was.
C13_Witness ==
    /\ pc = "done"
    /\ entered = <<"1", ",", "0", "0", "0">>
    /\ sim # None
    /\ Last(out) = MsgInvalid
    /\ file = FileWith(<<"earlier results">>)

\* C15: when the market data has no pairs no pool is built, and the message of
\* that failure is not the message of a run that had pairs.
C15_NoDataDistinct ==
    /\ pairs = <<>> => sim = None
    /\ (pairs = <<>> /\ pc = "done") => out = <<MsgUnable>>
    /\ pairs # <<>> => MsgUnable \notin Range(out)

\* The pool after simulate_buy(a) on a copy of pool s, and after simulate_sell(a).
AfterBuy(s, a) == SimulateBuy(s, a).sim

AfterSell(s, a) == SimulateSell(s, a).sim

ShortPool(s) == Short(s.reserve_usd) /\ Short(s.reserve_token)

C16_DegenerateGuard ==
    /\ FGt(sim.reserve_usd, Zero)
    /\ FGt(sim.reserve_token, Zero)
    /\ IsBuyResult => FGt(result.value.tokens_received, Zero)
    /\ IsSellResult => FGt(result.value.usd_received, Zero)

\* A step that is a call of get_price: it changes nothing of the pool, returns
\* reserve_usd / reserve_token, and returns what the call before it returned
\* if that was a get_price call too.
GetPriceStep ==
    call'.op = "get_price" =>
        /\ sim' = sim
        /\ result' = Returned(FDiv(sim.reserve_usd, sim.reserve_token))
        /\ (call.op = "get_price" => result' = result)

\* C17: get_price has no side effect: it leaves reserve_usd, reserve_token and
\* k unchanged and returns reserve_usd / reserve_token of the current state.
C17_GetPricePure == [][GetPriceStep]_vars

\* C17 witness: get_price was called after one trade and returned a price
\* that is not the constructed one.
C17_Witness ==
    /\ call.op = "get_price"
    /\ ntrades = 1
    /\ result = Returned(FDiv(sim.reserve_usd, sim.reserve_token))
    /\ result.value # token_price

\* A run of main that got to its end with the results saved.
Successful == pc = "done" /\ out # <<>> /\ Last(out) = MsgSaved

\* A step of main: at most one trade in all, on a constructed pool, and once
\* it is applied the pool is not touched again.
LifecycleStep ==
    /\ ntrades' <= 1
    /\ ntrades' = 1 => sim' # None /\ pc' \in {"print", "save", "done", "crash"}
    /\ ntrades = 1 => sim' = sim /\ result' = result

\* C18: a run of main goes constructed -> one trade applied -> result
\* available: at most one trade operation is invoked, exactly one on a
\* successful run, and the reserves are not changed after it.
C18_SingleTrade ==
    /\ [](Successful => ntrades = 1 /\ result.kind = "value")
    /\ [](pc \in {"print", "save"} => ntrades = 1 /\ result.kind = "value")
    /\ [][LifecycleStep]_vars

\* C18 witness: a run that sold is over with its results saved.
C18_Witness ==
    /\ Successful
    /\ ntrades = 1
    /\ call.op = "simulate_sell"
    /\ result.kind = "value"

\* C19: the pool built from liquidity L > 0 and price P > 0 has
\* reserve_usd = L/2, reserve_token = (L/2)/P and k = their product, and
\* get_price on it returns P.
C19_Construction ==
    ntrades = 0 =>
        /\ sim.reserve_usd = FDiv(total_liquidity, Num(2))
        /\ sim.reserve_token = FDiv(FDiv(total_liquidity, Num(2)), token_price)
        /\ sim.k = FMul(sim.reserve_usd, sim.reserve_token)
        /\ (call.op = "get_price" => result = Returned(token_price))

\* C19 witness: get_price was called on a fresh pool and returned the price
\* the pool was built with.
C19_Witness ==
    /\ ntrades = 0
    /\ call.op = "get_price"
    /\ result = Returned(token_price)

\* A step that is a call simulate_sell(a) which returned: what it stored and
\* returned, in terms of the pool before the call.
SellConventionStep ==
    (SellStep /\ result'.kind = "value") =>
        LET a         == call'.args[1]
            old_price == FDiv(sim.reserve_usd, sim.reserve_token)
            r         == result'.value
        IN  /\ r.old_price = old_price
            /\ r.tokens_spent = FDiv(a, old_price)
            /\ sim'.reserve_token = FAdd(sim.reserve_token, r.tokens_spent)
            /\ sim'.reserve_usd = FDiv(sim.k, sim'.reserve_token)
            /\ r.usd_received = FSub(sim.reserve_usd, sim'.reserve_usd)
            /\ r.slippage = FMul(FDiv(FSub(a, r.usd_received), a), Hundred)

\* C20: simulate_sell(a) with a > 0 sells a / old_price tokens, adds them to
\* reserve_token, sets reserve_usd to k / new reserve_token, returns the
\* difference of the USD reserves as usd_received and
\* (a - usd_received) / a * 100 as slippage.
C20_SellConvention == [][SellConventionStep]_vars

\* C20 witness: a third trade, a sell, has sold more tokens than the pool was
\* built with and received less than the amount asked for.
C20_Witness ==
    /\ ntrades = 3
    /\ IsSellResult
    /\ FGt(result.value.tokens_spent, Constructed.reserve_token)
    /\ FLt(result.value.usd_received, call.args[1])

\* A step that is a call simulate_buy(a) which returned: what it stored and
\* returned, in terms of the pool before the call.  A step that is a call of
\* calculate_slippage with an expected amount of 0 returns 0.
BuyResultStep ==
    /\ (BuyStep /\ result'.kind = "value") =>
           LET a         == call'.args[1]
               old_price == FDiv(sim.reserve_usd, sim.reserve_token)
               expected  == FDiv(a, old_price)
               r         == result'.value
           IN  /\ sim'.reserve_usd = FAdd(sim.reserve_usd, a)
               /\ sim'.reserve_token = FDiv(sim.k, sim'.reserve_usd)
               /\ r.usd_spent = a
               /\ r.tokens_received = FSub(sim.reserve_token, sim'.reserve_token)
               /\ r.old_price = old_price
               /\ r.new_price = FDiv(sim'.reserve_usd, sim'.reserve_token)
               /\ r.price_change_ratio = FDiv(r.new_price, r.old_price)
               /\ r.slippage =
                      FMul(FDiv(FSub(expected, r.tokens_received), expected), Hundred)
    /\ (call'.op = "calculate_slippage" /\ IsZero(call'.args[1])) =>
           result' = Returned(Zero)

\* C21: simulate_buy(a) with a > 0 sets reserve_usd to the old reserve_usd + a
\* and reserve_token to k / new reserve_usd, and returns usd_spent = a,
\* tokens_received = old - new reserve_token, the price before and after,
\* their ratio, and slippage = (a/old_price - tokens_received) / (a/old_price)
\* * 100; the slippage of an expected amount of 0 is 0.
C21_BuyResult == [][BuyResultStep]_vars

\* C21 witness: a second trade, a buy, has returned a result whose usd_spent
\* is the amount and whose slippage is positive.
C21_Witness ==
    /\ ntrades = 2
    /\ IsBuyResult
    /\ result.value.usd_spent = call.args[1]
    /\ FGt(result.value.slippage, Zero)
    /\ FGt(result.value.tokens_received, Zero)

\* The step of main that saves: the file holds what it held and more.
SaveKeepsHistory ==
    (pc = "save" /\ pc' = "done") =>
        /\ file'.exists
        /\ Len(file'.content) > Len(file.content)
        /\ Range(file.content) \subseteq Range(file'.content)

\* C22: after a successful run the results file contains the results of this
\* simulation, and what the file held before the run is still in it.
C22_HistorySaved == [][SaveKeepsHistory]_vars

\* A trade step of main: the operation called agrees with the sign of the
\* amount, and is handed its absolute value.
DispatchStep ==
    /\ BuyStep => /\ FGt(amount, Zero)
                  /\ call'.args = <<amount>>
    /\ SellStep => /\ FLt(amount, Zero)
                   /\ call'.args = <<FNeg(amount)>>
    /\ (BuyStep \/ SellStep) => FGt(call'.args[1], Zero)

SlippageFormula(s, a) == FMul(FDiv(a, FAdd(s.reserve_usd, a)), Hundred)

BuyRatio(s, a) == SimulateBuy(s, a).result.value.price_change_ratio

SellRatio(s, a) == SimulateSell(s, a).result.value.price_change_ratio

MaxRuns == 3

MaxPairs == 2

Piece(kind, time, pair) == [kind |-> kind, time |-> time, pair |-> pair]

\* f.write("PREVIOUS ANALYSES\n") and the line of dashes
Separator == Piece("separator", 0, 0)

\* Content that does not come from hearts_law_sim.
OtherText == Piece("text", 0, 0)

\* The file before the first run: absent, empty, or with some content.
HeartsFiles == {NoFile, FileWith(<<>>), FileWith(<<OtherText>>)}

\* What the with block writes first: the header, then one block per result.
NewAnalysis(time, results) ==
    <<Piece("header", time, 0)>> \o
    [i \in 1..Len(results) |-> Piece("result", time, results[i])]

\* read_existing_content: "" when the file does not exist.
ReadExistingContent(f) == IF f.exists THEN f.content ELSE <<>>

\* Mutant of HeartsWrite: the new analysis is appended after the old content.
HeartsWriteAppend(analysis, existing_content) ==
    IF existing_content # <<>>
    THEN existing_content \o <<Separator>> \o analysis
    ELSE analysis

\* The content the with block leaves: the new analysis, then, if there was
\* content, the separator and that content.
HeartsWrite(analysis, existing_content) ==
    IF existing_content # <<>>
    THEN analysis \o <<Separator>> \o existing_content
    ELSE analysis

MsgNoValidPairs == "No valid pairs found."

MsgAnalysisSaved == "Analysis results saved"

MsgCouldNotSave == "Warning: Could not save results to file"

MsgPairError == "Error: Could not fetch information for pair address"

MsgCalculated == "Calculated Results:"

HeartsInit ==
    /\ \E f \in HeartsFiles :
           hearts_law = [pc |-> "idle", run |-> 0, pair_addresses |-> 0, left |-> 0,
                         results |-> <<>>, first_pair_info |-> FALSE,
                         file |-> f, initial |-> f, history |-> <<>>, out |-> ""]
    /\ total_liquidity = None
    /\ token_price = None
    /\ sim = None
    /\ call = Call("hearts_law_sim", <<>>)
    /\ result = None
    /\ ntrades = 0
    /\ pc = "hearts-law-sim"
    /\ pairs = <<>>
    /\ token_symbol = ""
    /\ entered = <<>>
    /\ amount = None
    /\ out = <<>>
    /\ file = NoFile
    /\ token_holders = None
    /\ contract_txs = None
    /\ common_holdings = None

HeartsFrame == UNCHANGED <<simvars, token_holders, contract_txs, common_holdings>>

\* hearts_law_sim(token_name, pair_addresses) is called with n addresses.
HeartsStart(n) ==
    /\ hearts_law.pc = "idle"
    /\ hearts_law.run < MaxRuns
    /\ hearts_law' = [hearts_law EXCEPT !.pc = "loop", !.run = @ + 1,
                                        !.pair_addresses = n, !.left = n,
                                        !.results = <<>>, !.first_pair_info = FALSE,
                                        !.out = ""]
    /\ HeartsFrame

\* get_pair_info returned None: the pair is skipped.
HeartsPairSkipped ==
    /\ hearts_law.pc = "loop"
    /\ hearts_law.left > 0
    /\ hearts_law' = [hearts_law EXCEPT !.left = @ - 1, !.out = MsgPairError]
    /\ HeartsFrame

\* The pair is analysed and its result appended.
HeartsPairAnalysed ==
    /\ hearts_law.pc = "loop"
    /\ hearts_law.left > 0
    /\ hearts_law' =
           [hearts_law EXCEPT !.left = @ - 1,
                              !.first_pair_info = TRUE,
                              !.results = Append(@, hearts_law.pair_addresses
                                                    - hearts_law.left + 1),
                              !.out = MsgCalculated]
    /\ HeartsFrame

\* float(input(...)) raises ValueError, which nothing catches: the run is over.
HeartsInputRaises ==
    /\ hearts_law.pc = "loop"
    /\ hearts_law.left > 0
    /\ hearts_law' = [hearts_law EXCEPT !.pc = "idle", !.out = "ValueError"]
    /\ HeartsFrame

\* if not results or not first_pair_info: return
HeartsNoValidPairs ==
    /\ hearts_law.pc = "loop"
    /\ hearts_law.left = 0
    /\ hearts_law.results = <<>> \/ ~hearts_law.first_pair_info
    /\ hearts_law' = [hearts_law EXCEPT !.pc = "idle", !.out = MsgNoValidPairs]
    /\ HeartsFrame

\* The file is read, opened with 'w' and written.
HeartsSave ==
    /\ hearts_law.pc = "loop"
    /\ hearts_law.left = 0
    /\ ~(hearts_law.results = <<>> \/ ~hearts_law.first_pair_info)
    /\ LET analysis == NewAnalysis(hearts_law.run, hearts_law.results)
           existing_content == ReadExistingContent(hearts_law.file)
       IN  hearts_law' =
               [hearts_law EXCEPT !.pc = "idle",
                                  !.file = FileWith(HeartsWrite(analysis, existing_content)),
                                  !.history = Append(@, analysis),
                                  !.out = MsgAnalysisSaved]
    /\ HeartsFrame

\* Reading or opening the file raises: the except branch prints the warning.
HeartsSaveFails ==
    /\ hearts_law.pc = "loop"
    /\ hearts_law.left = 0
    /\ ~(hearts_law.results = <<>> \/ ~hearts_law.first_pair_info)
    /\ hearts_law' = [hearts_law EXCEPT !.pc = "idle", !.out = MsgCouldNotSave]
    /\ HeartsFrame

HeartsNext ==
    \/ \E n \in 1..MaxPairs : HeartsStart(n)
    \/ HeartsPairSkipped
    \/ HeartsPairAnalysed
    \/ HeartsInputRaises
    \/ HeartsNoValidPairs
    \/ HeartsSave
    \/ HeartsSaveFails

HeartsSpec == HeartsInit /\ [][HeartsNext]_vars

\* The headers of a content are in the order newest first.
NewestFirst(content) ==
    \A i, j \in 1..Len(content) :
        (i < j /\ content[i].kind = "header" /\ content[j].kind = "header") =>
            content[i].time > content[j].time

\* part is in content, in one piece; part is the end of content.
Contains(content, part) ==
    \E i \in 0..(Len(content) - Len(part)) :
        SubSeq(content, i + 1, i + Len(part)) = part

EndsWith(content, part) ==
    /\ Len(part) <= Len(content)
    /\ SubSeq(content, Len(content) - Len(part) + 1, Len(content)) = part

\* The file between the steps of hearts_law_sim: the analysis saved last is
\* at the top, every analysis saved is in the file, what the file held before
\* the first run is at its end, and a file no analysis was saved to is as it
\* was.
HistoryKept ==
    LET content == ReadExistingContent(hearts_law.file)
        history == hearts_law.history
    IN  /\ NewestFirst(content)
        /\ \A k \in 1..Len(history) : Contains(content, history[k])
        /\ EndsWith(content, ReadExistingContent(hearts_law.initial))
        /\ history # <<>> =>
               SubSeq(content, 1, Len(Last(history))) = Last(history)
        /\ history = <<>> => hearts_law.file = hearts_law.initial

\* A step of hearts_law_sim: the step that saves writes the new analysis, then
\* the separator and the complete previous content if there was any; a run
\* without a result leaves the file as it is, absent if it was absent.
HeartsFileStep ==
    LET existing == ReadExistingContent(hearts_law.file)
        analysis == NewAnalysis(hearts_law.run, hearts_law.results)
    IN  /\ hearts_law'.out = MsgAnalysisSaved =>
               /\ hearts_law.results # <<>>
               /\ hearts_law'.file.exists
               /\ hearts_law'.file.content =
                      IF existing = <<>> THEN analysis
                      ELSE analysis \o <<Separator>> \o existing
        /\ hearts_law.results = <<>> => hearts_law'.file = hearts_law.file
        /\ hearts_law'.out = MsgNoValidPairs => hearts_law'.file = hearts_law.file

\* C24: when hearts_law_sim has a result, the rewritten file is the new
\* analysis, then (if the file had content) the PREVIOUS ANALYSES separator
\* and the complete previous content; over repeated runs the analyses are
\* newest first and none is lost; without a result the file is neither
\* created nor modified.
C24_HeartsHistory ==
    /\ []HistoryKept
    /\ [][HeartsFileStep]_vars

\* C24 witness: three runs have saved an analysis each to a file that had
\* content: the file holds the three, three separators and that content.
C24_Witness ==
    /\ hearts_law.pc = "idle"
    /\ Len(hearts_law.history) = 3
    /\ hearts_law.initial = FileWith(<<OtherText>>)
    /\ Len(SelectSeq(hearts_law.file.content, LAMBDA x : x = Separator)) = 3
    /\ Len(hearts_law.results) = 2
    /\ Last(hearts_law.file.content) = OtherText
    /\ hearts_law.file.content[1] = Piece("header", 3, 0)

(***************************************************************************)
(* get-token-holders.py: fetch_token_holders asks for the holders page by  *)
(* page, retrying a page that fails, writes a row per holder, and draws    *)
(* the bar chart.                                                          *)
(***************************************************************************)
MAX_RETRIES == 5

\* The number of pages asked for in a behaviour, and of items on a page.
MaxPages == 3

MaxItems == 2

\* What a page answers with: its number of items, and next_page_params or not.
Responses == [items : 0..MaxItems, next_page_params : BOOLEAN]

NoResponse == [items |-> 0, next_page_params |-> FALSE]

\* Mutant of LastAttempt: the comparison is with MAX_RETRIES.
LastAttemptLate(attempt) == ~(attempt < MAX_RETRIES)

\* The else of `if attempt < MAX_RETRIES - 1`.
LastAttempt(attempt) == ~(attempt < MAX_RETRIES - 1)

HoldersInit ==
    /\ token_holders = [pc |-> "start", page |-> 0, attempt |-> 0, requests |-> 0,
                        data |-> NoResponse, holders_processed |-> 0,
                        chart |-> FALSE]
    /\ total_liquidity = None
    /\ token_price = None
    /\ sim = None
    /\ call = Call("fetch_token_holders", <<>>)
    /\ result = None
    /\ ntrades = 0
    /\ pc = "get-token-holders"
    /\ pairs = <<>>
    /\ token_symbol = ""
    /\ entered = <<>>
    /\ amount = None
    /\ out = <<>>
    /\ file = NoFile
    /\ hearts_law = None
    /\ contract_txs = None
    /\ common_holdings = None

HoldersFrame == UNCHANGED <<simvars, hearts_law, contract_txs, common_holdings>>

\* run_get_html failed: the function returns at once.
HoldersNoHtml ==
    /\ token_holders.pc = "start"
    /\ token_holders' = [token_holders EXCEPT !.pc = "returned early"]
    /\ HoldersFrame

\* The output file is opened and the loop entered: the first page, attempt 0.
HoldersOpen ==
    /\ token_holders.pc = "start"
    /\ token_holders' = [token_holders EXCEPT !.pc = "attempt", !.page = 1,
                                              !.attempt = 0, !.requests = 0]
    /\ HoldersFrame

\* requests.get and raise_for_status succeed: break out of the for loop.
HoldersRequestSucceeds(data) ==
    /\ token_holders.pc = "attempt"
    /\ token_holders.attempt < MAX_RETRIES
    /\ token_holders' = [token_holders EXCEPT !.pc = "page", !.requests = @ + 1,
                                              !.data = data]
    /\ HoldersFrame

\* requests.get or raise_for_status raises: the next attempt, or return.
HoldersRequestFails ==
    /\ token_holders.pc = "attempt"
    /\ token_holders.attempt < MAX_RETRIES
    /\ IF LastAttempt(token_holders.attempt)
       THEN token_holders' = [token_holders EXCEPT !.pc = "returned",
                                                   !.requests = @ + 1]
       ELSE token_holders' = [token_holders EXCEPT !.attempt = @ + 1,
                                                   !.requests = @ + 1]
    /\ HoldersFrame

\* The page has no items: break.
HoldersPageEmpty ==
    /\ token_holders.pc = "page"
    /\ token_holders.data.items = 0
    /\ token_holders' = [token_holders EXCEPT !.pc = "chart"]
    /\ HoldersFrame

\* A row is written per item; without next_page_params: break.
HoldersPageLast ==
    /\ token_holders.pc = "page"
    /\ token_holders.data.items > 0
    /\ ~token_holders.data.next_page_params
    /\ token_holders' = [token_holders EXCEPT !.pc = "chart",
                             !.holders_processed = @ + token_holders.data.items]
    /\ HoldersFrame

\* A row is written per item; params = next_page_params: the next page.
HoldersPageNext ==
    /\ token_holders.pc = "page"
    /\ token_holders.data.items > 0
    /\ token_holders.data.next_page_params
    /\ token_holders.page < MaxPages
    /\ token_holders' = [token_holders EXCEPT !.pc = "attempt", !.page = @ + 1,
                             !.attempt = 0, !.requests = 0,
                             !.holders_processed = @ + token_holders.data.items]
    /\ HoldersFrame

\* response.json() or an item of the page raises: the exception leaves the
\* function.
HoldersPageRaises ==
    /\ token_holders.pc = "page"
    /\ token_holders' = [token_holders EXCEPT !.pc = "raised"]
    /\ HoldersFrame

\* KeyboardInterrupt in the loop: caught, the function goes on to the chart.
HoldersInterrupted ==
    /\ token_holders.pc \in {"attempt", "page"}
    /\ token_holders' = [token_holders EXCEPT !.pc = "chart"]
    /\ HoldersFrame

\* create_bar_chart(token_name, all_holders, charts_dir)
HoldersChart ==
    /\ token_holders.pc = "chart"
    /\ token_holders' = [token_holders EXCEPT !.pc = "done", !.chart = TRUE]
    /\ HoldersFrame

HoldersNext ==
    \/ HoldersNoHtml
    \/ HoldersOpen
    \/ \E data \in Responses : HoldersRequestSucceeds(data)
    \/ HoldersRequestFails
    \/ HoldersPageEmpty
    \/ HoldersPageLast
    \/ HoldersPageNext
    \/ HoldersPageRaises
    \/ HoldersInterrupted
    \/ HoldersChart

HoldersSpec == HoldersInit /\ [][HoldersNext]_vars

\* A step of fetch_token_holders.  A request that succeeds is the last one for
\* its page; the request that fails as the fifth for its page makes the
\* function return; after that return nothing happens any more; a page without
\* items and a page without next_page_params end the loop.
HoldersRetryStep ==
    LET h  == token_holders
        h2 == token_holders'
    IN  /\ h.pc = "page" => h2.requests = h.requests \/ (h2.page = h.page + 1 /\ h2.requests = 0)
        /\ (h.pc = "attempt" /\ h2.requests = h.requests + 1 /\ h2.pc # "page") =>
               /\ h2.requests < 5 => (h2.pc = "attempt" /\ h2.page = h.page)
               /\ h2.requests = 5 => h2.pc = "returned"
        /\ h.pc = "returned" => h2 = h
        /\ (h.pc = "page" /\ (h.data.items = 0 \/ ~h.data.next_page_params)) =>
               h2.pc # "attempt"
        /\ h2.page # h.page => (h2.requests = 0 /\ h2.attempt = 0)

\* C25: fetch_token_holders issues at most MAX_RETRIES = 5 requests for a
\* page; a successful attempt stops the retrying for that page; if the fifth
\* attempt fails the function returns without asking for further pages,
\* without writing further rows and without the bar chart; the loop ends on a
\* page without items, without next_page_params, or on that exhaustion.
C25_BoundedRetry ==
    /\ [](/\ token_holders.requests <= 5
          /\ token_holders.requests <= token_holders.attempt + 1
          /\ token_holders.pc = "returned" =>
                 (token_holders.requests = 5 /\ ~token_holders.chart))
    /\ [][HoldersRetryStep]_vars

\* C25 witness: on the second page, after rows of the first were written, the
\* fifth request has failed and the function has returned without the chart.
C25_Witness ==
    /\ token_holders.pc = "returned"
    /\ token_holders.page = 2
    /\ token_holders.requests = 5
    /\ token_holders.holders_processed = 2
    /\ ~token_holders.chart

(***************************************************************************)
(* get-contract-txs.py: the loop of fetch_all_txs reads a page of          *)
(* transactions, clicks the next-page button, and retries after an         *)
(* exception.  pbar_n is pbar.n modulo RestartEvery, which is all the loop *)
(* reads of it; failed is the number of passes through the except branch   *)
(* since the loop last got to its `retry_count = 0`.                       *)
(***************************************************************************)
max_retries == 5

\* if pbar.n % 1000 == 0: restart the browser
RestartEvery == 1000

\* Mutant of AfterSuccess: the count is left as it is.
AfterSuccessKept(retry_count) == retry_count

\* retry_count = 0, after the click on the next-page button
AfterSuccess(retry_count) == 0

\* if retry_count > max_retries: break
RetriesExceeded(retry_count) == retry_count > max_retries

TxsInit ==
    /\ contract_txs = [pc |-> "loop", retry_count |-> 0, pbar_n |-> 0,
                       failed |-> 0, event |-> "start"]
    /\ total_liquidity = None
    /\ token_price = None
    /\ sim = None
    /\ call = Call("fetch_all_txs", <<>>)
    /\ result = None
    /\ ntrades = 0
    /\ pc = "get-contract-txs"
    /\ pairs = <<>>
    /\ token_symbol = ""
    /\ entered = <<>>
    /\ amount = None
    /\ out = <<>>
    /\ file = NoFile
    /\ hearts_law = None
    /\ token_holders = None
    /\ common_holdings = None

TxsFrame == UNCHANGED <<simvars, hearts_law, token_holders, common_holdings>>

\* The except branch, entered with pbar.n = n.
TxsExcept(n) ==
    LET retry_count == contract_txs.retry_count + 1
    IN  contract_txs' =
            [contract_txs EXCEPT !.retry_count = retry_count,
                                 !.pbar_n = n,
                                 !.failed = @ + 1,
                                 !.event = "failed",
                                 !.pc = IF RetriesExceeded(retry_count) THEN "done"
                                        ELSE "loop"]

\* An exception before pbar.update(1): waiting for the page, reading it,
\* writing its rows.
TxsPageFails ==
    /\ contract_txs.pc = "loop"
    /\ TxsExcept(contract_txs.pbar_n)
    /\ TxsFrame

\* An exception after pbar.update(1): looking for the button, clicking it.
TxsClickFails ==
    /\ contract_txs.pc = "loop"
    /\ TxsExcept((contract_txs.pbar_n + 1) % RestartEvery)
    /\ TxsFrame

\* No next-page button: break.
TxsEnd ==
    /\ contract_txs.pc = "loop"
    /\ contract_txs' = [contract_txs EXCEPT !.pc = "done", !.event = "end",
                                            !.pbar_n = (@ + 1) % RestartEvery]
    /\ TxsFrame

\* The button is clicked and the count reset; every RestartEvery pages the
\* browser is restarted next.
TxsAdvance ==
    /\ contract_txs.pc = "loop"
    /\ LET n == (contract_txs.pbar_n + 1) % RestartEvery
       IN  contract_txs' =
               [contract_txs EXCEPT !.retry_count = AfterSuccess(@),
                                    !.pbar_n = n,
                                    !.failed = 0,
                                    !.event = "advanced",
                                    !.pc = IF n = 0 THEN "restart" ELSE "loop"]
    /\ TxsFrame

\* The browser is closed and launched again.
TxsRestart ==
    /\ contract_txs.pc = "restart"
    /\ contract_txs' = [contract_txs EXCEPT !.pc = "loop", !.event = "restarted"]
    /\ TxsFrame

\* Closing or launching the browser raises.
TxsRestartFails ==
    /\ contract_txs.pc = "restart"
    /\ TxsExcept(contract_txs.pbar_n)
    /\ TxsFrame

TxsNext ==
    \/ TxsPageFails
    \/ TxsClickFails
    \/ TxsEnd
    \/ TxsAdvance
    \/ TxsRestart
    \/ TxsRestartFails

TxsSpec == TxsInit /\ [][TxsNext]_vars

\* A step of the loop: an iteration that advances resets retry_count, one that
\* fails adds one to it, and the loop is left on the failure that takes
\* retry_count above max_retries or when there is no next-page button.
TxsRetryStep ==
    LET c  == contract_txs
        c2 == contract_txs'
    IN  /\ c2.event = "advanced" => c2.retry_count = 0
        /\ c2.event = "failed" =>
               /\ c2.retry_count = c.retry_count + 1
               /\ c2.pc = "done" <=> c2.retry_count = 6
        /\ (c.pc # "done" /\ c2.pc = "done") =>
               (c2.event = "end" \/ (c2.event = "failed" /\ c2.retry_count = 6))
        /\ c2.event = "end" => (c2.pc = "done" /\ c2.retry_count = c.retry_count)
        /\ c.pc = "done" => c2 = c

\* C26: retry_count counts the consecutive failed iterations, is reset to 0 by
\* every iteration that advances to a next page, and the loop is left once
\* retry_count exceeds max_retries = 5, on the sixth consecutive failure, or
\* when there is no next-page button; retry_count never exceeds 6.
C26_ConsecutiveRetry ==
    /\ [](/\ contract_txs.retry_count = contract_txs.failed
          /\ contract_txs.retry_count <= 6
          /\ contract_txs.pc # "done" => contract_txs.retry_count <= 5
          /\ contract_txs.retry_count = 6 => contract_txs.pc = "done")
    /\ [][TxsRetryStep]_vars

\* C26 witness: after pages that advanced, among them failures that were
\* reset, the sixth failure in a row has ended the loop.
C26_Witness ==
    /\ contract_txs.pc = "done"
    /\ contract_txs.event = "failed"
    /\ contract_txs.retry_count = 6
    /\ contract_txs.pbar_n = 3

(***************************************************************************)
(* get-common-holding.py: analyze_common_holdings goes through the wallets *)
(* of the holders file and reads the holdings of each from its cache file  *)
(* temp/<address>.txt or, when there is none, from the API.                *)
(***************************************************************************)
\* The number of runs in a behaviour and of rows in the holders file.
MaxAnalyses == 2

MaxHolders == 3

Addresses == {"0xa", "0xb"}

\* The rows of the holders file: an address may occur more than once.
HolderLists == UNION {[1..n -> Addresses] : n \in 1..MaxHolders}

\* A holding without a symbol, which is not written to the cache.
NoSymbol == "None"

\* What get_wallet_holdings returns: [] when the status is not 200, else the
\* holdings of the answer.
Holdings == {<<>>, <<"PLSX">>, <<"PLSX", NoSymbol, "INC">>}

\* The cache files a run may find: none, an empty one, one with a holding.
CacheFiles == {NoFile, FileWith(<<>>), FileWith(<<"HEX">>)}

\* The lines written to the cache file: the holdings with symbol and address.
CacheLines(holdings) == SelectSeq(holdings, LAMBDA symbol : symbol # NoSymbol)

\* Mutant of CacheHit: an empty cache file does not count.
CacheHitNonEmpty(cache_file) == cache_file.exists /\ cache_file.content # <<>>

\* os.path.exists(cache_file)
CacheHit(cache_file) == cache_file.exists

CommonInit ==
    /\ \E holders \in HolderLists, temp \in [Addresses -> CacheFiles] :
           common_holdings = [pc |-> "idle", run |-> 0, holders |-> holders, i |-> 1,
                              temp |-> temp,
                              fetched |-> [a \in Addresses |-> 0],
                              complete |-> FALSE]
    /\ total_liquidity = None
    /\ token_price = None
    /\ sim = None
    /\ call = Call("analyze_common_holdings", <<>>)
    /\ result = None
    /\ ntrades = 0
    /\ pc = "get-common-holding"
    /\ pairs = <<>>
    /\ token_symbol = ""
    /\ entered = <<>>
    /\ amount = None
    /\ out = <<>>
    /\ file = NoFile
    /\ hearts_law = None
    /\ token_holders = None
    /\ contract_txs = None

CommonFrame == UNCHANGED <<simvars, hearts_law, token_holders, contract_txs>>

\* The wallet of the current row.
CurrentAddress == common_holdings.holders[common_holdings.i]

InLoop ==
    /\ common_holdings.pc = "loop"
    /\ common_holdings.i <= Len(common_holdings.holders)

\* analyze_common_holdings is called: the holders file is read.
CommonStart ==
    /\ common_holdings.pc = "idle"
    /\ common_holdings.run < MaxAnalyses
    /\ common_holdings' = [common_holdings EXCEPT !.pc = "loop", !.run = @ + 1,
                                                  !.i = 1,
                                                  !.fetched = [a \in Addresses |-> 0]]
    /\ CommonFrame

\* The cache file exists: the holdings are read from it.
CommonReadCache ==
    /\ InLoop
    /\ CacheHit(common_holdings.temp[CurrentAddress])
    /\ common_holdings' = [common_holdings EXCEPT !.i = @ + 1]
    /\ CommonFrame

\* There is no cache file: the holdings are fetched and the file written.
CommonFetch(holdings) ==
    /\ InLoop
    /\ ~CacheHit(common_holdings.temp[CurrentAddress])
    /\ common_holdings' =
           [common_holdings EXCEPT !.i = @ + 1,
                                   !.fetched[CurrentAddress] = @ + 1,
                                   !.temp[CurrentAddress] = FileWith(CacheLines(holdings))]
    /\ CommonFrame

\* There is no cache file and the request raises: the exception ends the run.
CommonFetchRaises ==
    /\ InLoop
    /\ ~CacheHit(common_holdings.temp[CurrentAddress])
    /\ common_holdings' = [common_holdings EXCEPT !.pc = "idle",
                                                  !.fetched[CurrentAddress] = @ + 1]
    /\ CommonFrame

\* The loop is over: return common_holdings.
CommonReturn ==
    /\ common_holdings.pc = "loop"
    /\ common_holdings.i > Len(common_holdings.holders)
    /\ common_holdings' = [common_holdings EXCEPT !.pc = "idle", !.complete = TRUE]
    /\ CommonFrame

CommonNext ==
    \/ CommonStart
    \/ CommonReadCache
    \/ \E holdings \in Holdings : CommonFetch(holdings)
    \/ CommonFetchRaises
    \/ CommonReturn

CommonSpec == CommonInit /\ [][CommonNext]_vars

\* A step of analyze_common_holdings.  A cache file that exists is not
\* rewritten and its wallet not fetched; a fetch is of a wallet without a
\* cache file and, when it returns, leaves a cache file; once a run has got
\* through the loop no request is made any more.
CacheStep ==
    LET c  == common_holdings
        c2 == common_holdings'
    IN  \A a \in Addresses :
            /\ c.temp[a].exists =>
                   /\ c2.temp[a] = c.temp[a]
                   /\ c2.fetched[a] <= c.fetched[a]
            /\ c2.fetched[a] > c.fetched[a] =>
                   /\ ~c.temp[a].exists
                   /\ c2.fetched[a] = 1
                   /\ c2.pc = "loop" => c2.temp[a].exists
                   /\ ~c.complete
            /\ c2.temp[a] # c.temp[a] => c2.fetched[a] = c.fetched[a] + 1

\* C30: a wallet whose cache file exists is never fetched and its cache file
\* not rewritten; a wallet without one is fetched exactly once and a cache
\* file is created for it, also when the fetch returned no holdings; after the
\* loop every wallet processed has a cache file and a second run makes no
\* request.
C30_HoldingsCache ==
    /\ [](LET c == common_holdings
          IN  /\ \A a \in Addresses : c.fetched[a] <= 1
              /\ c.pc = "loop" =>
                     \A j \in 1..(c.i - 1) : c.temp[c.holders[j]].exists
              /\ c.complete =>
                     /\ \A j \in 1..Len(c.holders) : c.temp[c.holders[j]].exists
                     /\ c.pc = "loop" => \A a \in Addresses : c.fetched[a] = 0)
    /\ [][CacheStep]_vars

\* C30 witness: the first run fetched both wallets, one without holdings, and
\* the second run has gone through the loop without a request.
C30_Witness ==
    LET c == common_holdings
    IN  /\ c.run = 2
        /\ c.pc = "idle"
        /\ c.complete
        /\ c.holders = <<"0xa", "0xb", "0xa">>
        /\ c.temp["0xa"] = FileWith(<<>>)
        /\ c.temp["0xb"] = FileWith(<<"PLSX", "INC">>)
        /\ \A a \in Addresses : c.fetched[a] = 0

====
